---------------------------- MODULE Spec2Model ----------------------------
(***************************************************************************)
(* Model of the freesurfer stage of neuro-utils (src/scripts/freesurfer.py):*)
(* staging of the T1 scans, the resource allocator allocate_resources, the  *)
(* ThreadPoolExecutor that runs one recon-all process per staged subject,   *)
(* the aggregation of the failures and the post-processing.                 *)
(***************************************************************************)
EXTENDS Integers, Sequences, FiniteSets, TLC

(***************************************************************************)
(* Bounds of the model.                                                     *)
(***************************************************************************)
\* SpecAlloc: the pools and batch sizes the allocator is applied to.
MaxCores == 64
MaxMemGb == 256
MaxJobs == 10
\* Spec: the subjects that can be requested and the pool of the host.
MaxSubjects == 3
MaxCpus == 16
MaxMem == 12
\* SpecPipe: the length of args.modules and the number of pipeline runs.
MaxModules == 3
MaxRuns == 2

\* freesurfer.py:160, 168: 4 GB of memory per subject.
MemPerSubject == 4

Subjects == 1..MaxSubjects

VARIABLES
    n_cpus,        \* config "n_cpus"
    mem_gb,        \* config "mem_gb"
    args_subjects, \* args.subjects: the requested subject ids
    t1_exists,     \* the subjects whose T1 scan exists under bids_dir
    sub_dict,      \* the staged subjects, in insertion order
    run_settings,  \* the plan returned by allocate_resources
    pc,            \* position of main()
    job,           \* per submitted subject: state of its future
    started,       \* subjects whose recon-all process has been started
    collected,     \* futures already yielded by as_completed
    errors,        \* keys of the errors dict
    raised,        \* the exception main() ended with, or "none"
    promoted,      \* subjects whose output is under derivatives_dir
    scratch        \* TRUE while scratch_dir_freesurfer exists

\* State of pipeline.py.
VARIABLES
    modules,       \* args.modules
    mod_i,         \* position of the for loop of main() in modules
    ppc,           \* position of main() of pipeline.py
    exit_code,     \* exit code of the pipeline process, -1 while it runs
    calls,         \* the run_module calls of this run and how each ended
    yaml_exists,   \* TRUE when the project's dataset.yaml exists
    p_subjects,    \* the subject list handed to every module
    p_sessions,    \* the session list handed to every module
    summary_csv,   \* the file SUMMARY_CSV: whether it exists, and its rows
    clock,         \* number of datetime.now() readings written so far
    pipeline_runs, \* number of pipeline runs started
    csv_base       \* number of rows of SUMMARY_CSV when this run started

stageVars == << n_cpus, mem_gb, args_subjects, t1_exists, sub_dict,
                run_settings, pc, job, started, collected, errors, raised,
                promoted, scratch >>

pipeVars == << modules, mod_i, ppc, exit_code, calls, yaml_exists, p_subjects,
               p_sessions, summary_csv, clock, pipeline_runs, csv_base >>

\* The file system, and a call of utils.move_outputs.
VARIABLES
    fs,            \* the files and directories that exist
    overwrite,     \* the overwrite argument of move_outputs
    fs_before,     \* the file system when move_outputs was called
    mv_pc          \* position of the call of move_outputs

moveVars == << overwrite, fs_before, mv_pc >>

vars == << stageVars, pipeVars, fs, moveVars >>

NoPlan == [cores_per_sub |-> 0, parallel_hemi |-> FALSE, subjects_in_parallel |-> 0]

Min(a, b) == IF a <= b THEN a ELSE b

Range(s) == { s[i] : i \in 1..Len(s) }

\* The decimal text of a natural number.
Digit(d) == << "0", "1", "2", "3", "4", "5", "6", "7", "8", "9" >>[d + 1]

RECURSIVE Str(_)
Str(n) == IF n < 10 THEN Digit(n) ELSE Str(n \div 10) \o Digit(n % 10)

(***************************************************************************)
(* allocate_resources (freesurfer.py:157-170)                               *)
(***************************************************************************)
\* Variant: the non-subdivided 8-core candidate comes first.
Candidates_reordered ==
    << [hemi |-> FALSE, cores |-> 8],
       [hemi |-> TRUE,  cores |-> 8],
       [hemi |-> FALSE, cores |-> 4],
       [hemi |-> FALSE, cores |-> 2] >>

\* The candidates in the order the for loop visits them.
Candidates ==
    << [hemi |-> TRUE,  cores |-> 8],
       [hemi |-> FALSE, cores |-> 8],
       [hemi |-> FALSE, cores |-> 4],
       [hemi |-> FALSE, cores |-> 2] >>

\* Variant: the two halves of a subdivided job are not counted.
per_subj_ignores_hemi(hemi, cores) == cores

\* per_subj = cores * (2 if hemi else 1)
per_subj(hemi, cores) == cores * (IF hemi THEN 2 ELSE 1)

\* Variant: the cores are not taken into account.
max_subj_ignores_cores(total_cores, mem, per) == mem \div MemPerSubject

\* Variant: the memory is not taken into account.
max_subj_ignores_memory(total_cores, mem, per) == total_cores \div per

\* max_subj = min(total_cores // per_subj, mem_gb // 4)
max_subj(total_cores, mem, per) ==
    Min(total_cores \div per, mem \div MemPerSubject)

\* Variant: strict comparison.
Fits_strict(maxs, n_subjects) == maxs > n_subjects

\* if max_subj >= n_subjects
Fits(maxs, n_subjects) == maxs >= n_subjects

\* Variant: the fallback takes the 4-core candidate.
Fallback_four_cores(total_cores, mem) ==
    [cores_per_sub |-> 4, parallel_hemi |-> FALSE,
     subjects_in_parallel |-> max_subj(total_cores, mem, 4)]

\* Variant: the fallback subdivides the job.
Fallback_subdivided(total_cores, mem) ==
    [cores_per_sub |-> 2, parallel_hemi |-> TRUE,
     subjects_in_parallel |-> max_subj(total_cores, mem, 4)]

\* Variant: the fallback grants one slot even when none fits.
Fallback_at_least_one(total_cores, mem) ==
    [cores_per_sub |-> 2, parallel_hemi |-> FALSE,
     subjects_in_parallel |->
        IF max_subj(total_cores, mem, 2) < 1 THEN 1
        ELSE max_subj(total_cores, mem, 2)]

\* Lines 165-170: not all subjects fit.
Fallback(total_cores, mem) ==
    [cores_per_sub |-> 2, parallel_hemi |-> FALSE,
     subjects_in_parallel |-> max_subj(total_cores, mem, 2)]

\* Variant: a fitting candidate runs as many subjects as it has room for.
RECURSIVE TryCandidates_returns_max_fit(_, _, _, _)
TryCandidates_returns_max_fit(i, total_cores, mem, n_subjects) ==
    IF i > Len(Candidates)
    THEN Fallback(total_cores, mem)
    ELSE LET c == Candidates[i]
             per == per_subj(c.hemi, c.cores)
         IN IF Fits(max_subj(total_cores, mem, per), n_subjects)
            THEN [cores_per_sub |-> c.cores, parallel_hemi |-> c.hemi,
                  subjects_in_parallel |-> max_subj(total_cores, mem, per)]
            ELSE TryCandidates_returns_max_fit(i + 1, total_cores, mem,
                                               n_subjects)

RECURSIVE TryCandidates(_, _, _, _)
TryCandidates(i, total_cores, mem, n_subjects) ==
    IF i > Len(Candidates)
    THEN Fallback(total_cores, mem)
    ELSE LET c == Candidates[i]
             per == per_subj(c.hemi, c.cores)
         IN IF Fits(max_subj(total_cores, mem, per), n_subjects)
            THEN [cores_per_sub |-> c.cores, parallel_hemi |-> c.hemi,
                  subjects_in_parallel |-> n_subjects]
            ELSE TryCandidates(i + 1, total_cores, mem, n_subjects)

allocate_resources(total_cores, mem, n_subjects) ==
    TryCandidates(1, total_cores, mem, n_subjects)

(***************************************************************************)
(* The file system and the helpers of utils/utils.py that work on it.      *)
(* A file system is a function from paths (sequences of names) to nodes: a  *)
(* directory, or the data of a file.                                        *)
(***************************************************************************)
DirNode == "<dir>"

EmptyFs == << >>

\* The function f itself, with its values enumerated over its domain.
Enumerated(f) == f @@ EmptyFs

IsPrefix(p, q) == Len(p) <= Len(q) /\ SubSeq(q, 1, Len(p)) = p

\* Path.exists()
exists(f, p) == p \in DOMAIN f

\* Path.is_dir()
is_dir(f, p) == p \in DOMAIN f /\ f[p] = DirNode

\* Path.iterdir(): the entries directly under p.
iterdir(f, p) == { q \in DOMAIN f : Len(q) = Len(p) + 1 /\ IsPrefix(p, q) }

\* Path.name
name(p) == p[Len(p)]

\* Path.mkdir(parents=True, exist_ok=True)
mkdir(f, p) == f @@ [q \in { SubSeq(p, 1, k) : k \in 1..Len(p) } |-> DirNode]

\* open(path, "w").write(data)
write_file(f, p, data) == (p :> data) @@ f

\* shutil.copyfile(src, dst): dst is created or overwritten.
copyfile(f, src, dst) == write_file(f, dst, f[src])

\* shutil.rmtree(p): p and everything under it.
rmtree(f, p) ==
    Enumerated([q \in { r \in DOMAIN f : ~IsPrefix(p, r) } |-> f[q]])

\* Path.unlink()
unlink(f, p) == Enumerated([q \in DOMAIN f \ {p} |-> f[q]])

\* shutil.move(src, dst), dst not existing: the tree under src is renamed.
move(f, src, dst) ==
    LET moved == { r \in DOMAIN f : IsPrefix(src, r) }
        Target(r) == dst \o SubSeq(r, Len(src) + 1, Len(r))
        kept == DOMAIN f \ moved
    IN Enumerated([q \in kept \cup { Target(r) : r \in moved } |->
                      IF \E r \in moved : Target(r) = q
                      THEN f[CHOOSE r \in moved : Target(r) = q]
                      ELSE f[q]])

RECURSIVE copytree_gvfs(_, _, _)
RECURSIVE CopyItems(_, _, _)
RECURSIVE CopyItems_files_only(_, _, _)

\* Variant: the directories under src are not descended into.
CopyItems_files_only(f, items, dst) ==
    IF items = {} THEN f
    ELSE LET item == CHOOSE i \in items : TRUE
             dest_item == Append(dst, name(item))
         IN CopyItems_files_only(
                IF is_dir(f, item) THEN f ELSE copyfile(f, item, dest_item),
                items \ {item}, dst)

\* utils.py lines 49-54: the loop over src.iterdir().
CopyItems(f, items, dst) ==
    IF items = {} THEN f
    ELSE LET item == CHOOSE i \in items : TRUE
             dest_item == Append(dst, name(item))
         IN CopyItems(
                IF is_dir(f, item)
                THEN copytree_gvfs(f, item, dest_item)
                ELSE copyfile(f, item, dest_item),
                items \ {item}, dst)

\* utils.py lines 43-54.
copytree_gvfs(f, src, dst) == CopyItems(mkdir(f, dst), iterdir(f, src), dst)

\* copytree_gvfs(src, dst, remove_src=True), as the scripts call it: the copy
\* of utils.py lines 43-54, after which the source tree is removed.
copytree_gvfs_remove_src(f, src, dst) == rmtree(copytree_gvfs(f, src, dst), src)

\* remove_dir(path), as the scripts call it: the directory and everything
\* under it is removed when it exists (remove_work_dir of utils.py).
remove_dir(f, p) == IF exists(f, p) /\ is_dir(f, p) THEN rmtree(f, p) ELSE f

\* Variant: an item whose destination exists is skipped whatever the flag.
MoveItem_ignores_flag(f, item, dest, overwrite_flag, oserror) ==
    IF exists(f, dest) THEN f
    ELSE IF ~oserror THEN move(f, item, dest)
         ELSE IF is_dir(f, item)
              THEN rmtree(copytree_gvfs(f, item, dest), item)
              ELSE unlink(copyfile(f, item, dest), item)

\* utils.py lines 67-91: one item of temp_output_dir. oserror is TRUE when
\* shutil.move raises OSError and the item is copied and removed instead.
MoveItem(f, item, dest, overwrite_flag, oserror) ==
    IF exists(f, dest) /\ ~overwrite_flag THEN f
    ELSE LET g == IF ~exists(f, dest) THEN f
                  ELSE IF is_dir(f, dest) THEN rmtree(f, dest)
                       ELSE unlink(f, dest)
         IN IF ~oserror THEN move(g, item, dest)
            ELSE IF is_dir(g, item)
                 THEN rmtree(copytree_gvfs(g, item, dest), item)
                 ELSE unlink(copyfile(g, item, dest), item)

\* utils.py lines 67-91: the loop over temp_output_dir.iterdir().
RECURSIVE MoveItems(_, _, _, _, _)
MoveItems(f, items, final_output_dir, overwrite_flag, oserror) ==
    IF items = {} THEN f
    ELSE LET item == CHOOSE i \in items : TRUE
             dest == Append(final_output_dir, name(item))
         IN MoveItems(MoveItem(f, item, dest, overwrite_flag, oserror),
                      items \ {item}, final_output_dir, overwrite_flag, oserror)

\* utils.py lines 94-98: temp_output_dir.rmdir() removes the directory only
\* when it is empty.
rmdir_if_empty(f, p) == IF iterdir(f, p) = {} THEN unlink(f, p) ELSE f

\* utils.py lines 56-98, temp_output_dir existing.
move_outputs(f, temp_output_dir, final_output_dir, overwrite_flag, oserror) ==
    rmdir_if_empty(
        MoveItems(mkdir(f, final_output_dir), iterdir(f, temp_output_dir),
                  final_output_dir, overwrite_flag, oserror),
        temp_output_dir)

(***************************************************************************)
(* The directories of the freesurfer stage (lines 124-126, 208) and what    *)
(* the stage and recon-all write into them.                                 *)
(***************************************************************************)
scratch_dir_freesurfer == << "scratch", "MemoryLane", "freesurfer" >>

temp_anat_dir == Append(scratch_dir_freesurfer, "anat")

temp_output_dir_freesurfer == Append(scratch_dir_freesurfer, "output")

final_output_dir_freesurfer == << "derivatives", "freesurfer" >>

\* Lines 129-130: the scratch directories have been created.
ScratchFs == mkdir(mkdir(EmptyFs, temp_anat_dir), temp_output_dir_freesurfer)

scan_name(sub) == "sub-" \o Str(sub) \o "_ses-1_T1w.nii.gz"

\* Lines 143-145: the T1 scans of the subjects subs are copied to scratch.
StageScans(f, subs) ==
    f @@ [q \in { Append(temp_anat_dir, scan_name(s)) : s \in subs } |->
            "T1w of sub-" \o Str(CHOOSE s \in subs :
                                    q = Append(temp_anat_dir, scan_name(s)))]

\* The subject directory recon-all is given with -sd and -subjid.
subject_dir(root, sub) == Append(root, "sub-" \o Str(sub))

\* Lines 56-64: recon-all -subjid sub-<subject> -sd <output_dir> writes the
\* subject's directory under output_dir; a run that fails leaves the
\* directory without the volume.
ReconAll(f, sub, returncode) ==
    LET mri == Append(subject_dir(temp_output_dir_freesurfer, sub), "mri")
        g == mkdir(f, mri)
    IN IF returncode = 0
       THEN write_file(g, Append(mri, "brain.mgz"), "brain of sub-" \o Str(sub))
       ELSE g

(***************************************************************************)
(* main() of freesurfer.py                                                  *)
(***************************************************************************)
\* The members of a set of subject ids in ascending order.
RECURSIVE Ascending(_)
Ascending(S) ==
    IF S = {} THEN << >>
    ELSE LET m == CHOOSE x \in S : \A y \in S : x <= y
         IN << m >> \o Ascending(S \ {m})

total_subjects == Len(sub_dict)

Running == { s \in DOMAIN job : job[s] = "running" }

\* Variant: a requested subject is staged whether or not its T1 scan exists.
Stage_ignores_missing ==
    /\ pc = "stage"
    /\ IF args_subjects = {}
       THEN /\ pc' = "raised"
            /\ raised' = "Exception"
            /\ UNCHANGED << sub_dict, fs >>
       ELSE /\ sub_dict' = Ascending(args_subjects)
            /\ fs' = StageScans(fs, args_subjects)
            /\ pc' = "allocate"
            /\ UNCHANGED raised
    /\ UNCHANGED << n_cpus, mem_gb, args_subjects, t1_exists, run_settings,
                    job, started, collected, errors, promoted, scratch >>
    /\ UNCHANGED pipeVars
    /\ UNCHANGED moveVars

\* Lines 135-149: copy the T1 scan of every requested subject to scratch,
\* skipping the subjects whose scan is missing.
Stage ==
    /\ pc = "stage"
    /\ IF args_subjects = {}
       THEN /\ pc' = "raised"
            /\ raised' = "Exception"
            /\ UNCHANGED << sub_dict, fs >>
       ELSE /\ sub_dict' = Ascending(args_subjects \cap t1_exists)
            /\ fs' = StageScans(fs, args_subjects \cap t1_exists)
            /\ pc' = "allocate"
            /\ UNCHANGED raised
    /\ UNCHANGED << n_cpus, mem_gb, args_subjects, t1_exists, run_settings,
                    job, started, collected, errors, promoted, scratch >>
    /\ UNCHANGED pipeVars
    /\ UNCHANGED moveVars

\* Lines 155-176.
Allocate ==
    /\ pc = "allocate"
    /\ run_settings' = allocate_resources(n_cpus, mem_gb, total_subjects)
    /\ pc' = "pool"
    /\ UNCHANGED << n_cpus, mem_gb, args_subjects, t1_exists, sub_dict, job,
                    started, collected, errors, raised, promoted, scratch >>
    /\ UNCHANGED pipeVars
    /\ UNCHANGED << fs, moveVars >>

\* ThreadPoolExecutor(max_workers=...) raises ValueError when max_workers <= 0.
PoolRejects(max_workers) == max_workers <= 0

\* Lines 185-188: create the executor and submit one future per subject.
CreatePool ==
    /\ pc = "pool"
    /\ IF PoolRejects(run_settings.subjects_in_parallel)
       THEN /\ pc' = "raised"
            /\ raised' = "ValueError"
            /\ UNCHANGED job
       ELSE /\ job' = [s \in Range(sub_dict) |-> "queued"]
            /\ pc' = "collect"
            /\ UNCHANGED raised
    /\ UNCHANGED << n_cpus, mem_gb, args_subjects, t1_exists, sub_dict,
                    run_settings, started, collected, errors, promoted,
                    scratch >>
    /\ UNCHANGED pipeVars
    /\ UNCHANGED << fs, moveVars >>

\* Variant: one work item more than max_workers.
WorkerAvailable_off_by_one ==
    Cardinality(Running) <= run_settings.subjects_in_parallel

\* The executor runs at most max_workers work items at a time.
WorkerAvailable == Cardinality(Running) < run_settings.subjects_in_parallel

\* Variant: no work item is taken once a job has failed.
NextQueued_stops_after_failure(s) ==
    /\ \A f \in DOMAIN job : job[f] # "failed"
    /\ \E i \in 1..Len(sub_dict) :
        /\ sub_dict[i] = s
        /\ job[s] = "queued"
        /\ \A j \in 1..(i - 1) : job[sub_dict[j]] # "queued"

\* The work queue is first in, first out.
NextQueued(s) ==
    \E i \in 1..Len(sub_dict) :
        /\ sub_dict[i] = s
        /\ job[s] = "queued"
        /\ \A j \in 1..(i - 1) : job[sub_dict[j]] # "queued"

\* Lines 53-75: a free worker takes the next work item and starts recon-all.
StartJob(s) ==
    /\ pc = "collect"
    /\ s \in DOMAIN job
    /\ NextQueued(s)
    /\ WorkerAvailable
    /\ job' = [job EXCEPT ![s] = "running"]
    /\ started' = started \cup {s}
    /\ UNCHANGED << n_cpus, mem_gb, args_subjects, t1_exists, sub_dict,
                    run_settings, pc, collected, errors, raised, promoted,
                    scratch >>
    /\ UNCHANGED pipeVars
    /\ UNCHANGED << fs, moveVars >>

\* Line 75: subprocess.run cannot launch recon-all and raises.
LaunchFails(s) ==
    /\ pc = "collect"
    /\ s \in DOMAIN job
    /\ NextQueued(s)
    /\ WorkerAvailable
    /\ job' = [job EXCEPT ![s] = "failed"]
    /\ UNCHANGED << n_cpus, mem_gb, args_subjects, t1_exists, sub_dict,
                    run_settings, pc, started, collected, errors, raised,
                    promoted, scratch >>
    /\ UNCHANGED pipeVars
    /\ UNCHANGED << fs, moveVars >>

\* Variant: a job whose process failed is queued again.
FinishJob_retries(s, returncode) ==
    /\ pc = "collect"
    /\ s \in DOMAIN job
    /\ job[s] = "running"
    /\ job' = [job EXCEPT ![s] = IF returncode # 0 THEN "queued" ELSE "succeeded"]
    /\ fs' = ReconAll(fs, s, returncode)
    /\ UNCHANGED << n_cpus, mem_gb, args_subjects, t1_exists, sub_dict,
                    run_settings, pc, started, collected, errors, raised,
                    promoted, scratch >>
    /\ UNCHANGED pipeVars
    /\ UNCHANGED moveVars

\* Lines 75-81: recon-all exits; a non-zero return code raises
\* CalledProcessError, which the future keeps.
FinishJob(s, returncode) ==
    /\ pc = "collect"
    /\ s \in DOMAIN job
    /\ job[s] = "running"
    /\ job' = [job EXCEPT ![s] = IF returncode # 0 THEN "failed" ELSE "succeeded"]
    /\ fs' = ReconAll(fs, s, returncode)
    /\ UNCHANGED << n_cpus, mem_gb, args_subjects, t1_exists, sub_dict,
                    run_settings, pc, started, collected, errors, raised,
                    promoted, scratch >>
    /\ UNCHANGED pipeVars
    /\ UNCHANGED moveVars

\* Variant: the errors dict keeps only the failure seen last.
Collect_keeps_last_error(s) ==
    /\ pc = "collect"
    /\ s \in DOMAIN job
    /\ job[s] \in {"succeeded", "failed"}
    /\ s \notin collected
    /\ collected' = collected \cup {s}
    /\ errors' = IF job[s] = "failed" THEN {s} ELSE errors
    /\ UNCHANGED << n_cpus, mem_gb, args_subjects, t1_exists, sub_dict,
                    run_settings, pc, job, started, raised, promoted, scratch >>
    /\ UNCHANGED pipeVars
    /\ UNCHANGED << fs, moveVars >>

\* Variant: a future that raised is not recorded in the errors dict.
Collect_drops_errors(s) ==
    /\ pc = "collect"
    /\ s \in DOMAIN job
    /\ job[s] \in {"succeeded", "failed"}
    /\ s \notin collected
    /\ collected' = collected \cup {s}
    /\ UNCHANGED << n_cpus, mem_gb, args_subjects, t1_exists, sub_dict,
                    run_settings, pc, job, started, errors, raised, promoted,
                    scratch >>
    /\ UNCHANGED pipeVars
    /\ UNCHANGED << fs, moveVars >>

\* Lines 190-195: as_completed yields a finished future.
Collect(s) ==
    /\ pc = "collect"
    /\ s \in DOMAIN job
    /\ job[s] \in {"succeeded", "failed"}
    /\ s \notin collected
    /\ collected' = collected \cup {s}
    /\ errors' = IF job[s] = "failed" THEN errors \cup {s} ELSE errors
    /\ UNCHANGED << n_cpus, mem_gb, args_subjects, t1_exists, sub_dict,
                    run_settings, pc, job, started, raised, promoted, scratch >>
    /\ UNCHANGED pipeVars
    /\ UNCHANGED << fs, moveVars >>

\* Variant: the errors dict is not looked at.
CheckErrors_ignores_errors ==
    /\ pc = "collect"
    /\ collected = DOMAIN job
    /\ pc' = "promote"
    /\ UNCHANGED << n_cpus, mem_gb, args_subjects, t1_exists, sub_dict,
                    run_settings, job, started, collected, errors, raised,
                    promoted, scratch >>
    /\ UNCHANGED pipeVars
    /\ UNCHANGED << fs, moveVars >>

\* Lines 190-199: every future has been yielded, the with block ends.
CheckErrors ==
    /\ pc = "collect"
    /\ collected = DOMAIN job
    /\ IF errors # {}
       THEN /\ pc' = "raised"
            /\ raised' = "RuntimeError"
       ELSE /\ pc' = "promote"
            /\ UNCHANGED raised
    /\ UNCHANGED << n_cpus, mem_gb, args_subjects, t1_exists, sub_dict,
                    run_settings, job, started, collected, errors, promoted,
                    scratch >>
    /\ UNCHANGED pipeVars
    /\ UNCHANGED << fs, moveVars >>

\* Lines 208-213: copy the output tree to derivatives_dir, remove it from
\* scratch and remove the scratch directory of the stage.
Promote ==
    /\ pc = "promote"
    /\ fs' = remove_dir(
                copytree_gvfs_remove_src(fs, temp_output_dir_freesurfer,
                                         final_output_dir_freesurfer),
                scratch_dir_freesurfer)
    /\ promoted' = DOMAIN job
    /\ scratch' = FALSE
    /\ pc' = "done"
    /\ UNCHANGED << n_cpus, mem_gb, args_subjects, t1_exists, sub_dict,
                    run_settings, job, started, collected, errors, raised >>
    /\ UNCHANGED pipeVars
    /\ UNCHANGED moveVars

\* utils.move_outputs is not called.
MoveIdle ==
    /\ overwrite = TRUE
    /\ fs_before = EmptyFs
    /\ mv_pc = "idle"

\* pipeline.py is not running.
PipeIdle ==
    /\ modules = << >>
    /\ mod_i = 1
    /\ ppc = "idle"
    /\ exit_code = -1
    /\ calls = << >>
    /\ yaml_exists = TRUE
    /\ p_subjects = << >>
    /\ p_sessions = << >>
    /\ summary_csv = [exists |-> FALSE, rows |-> << >>]
    /\ clock = 0
    /\ pipeline_runs = 0
    /\ csv_base = 0

InitCommon ==
    /\ PipeIdle
    /\ MoveIdle
    /\ fs = ScratchFs
    /\ run_settings = NoPlan
    /\ job = << >>
    /\ started = {}
    /\ collected = {}
    /\ errors = {}
    /\ raised = "none"
    /\ promoted = {}
    /\ scratch = TRUE

\* main() is entered with any pool, any request and any set of T1 scans.
Init ==
    /\ n_cpus \in 0..MaxCpus
    /\ mem_gb \in 0..MaxMem
    /\ args_subjects \in SUBSET Subjects
    /\ t1_exists \in SUBSET Subjects
    /\ sub_dict = << >>
    /\ pc = "stage"
    /\ InitCommon

Next ==
    \/ Stage
    \/ Allocate
    \/ CreatePool
    \/ \E s \in Subjects : StartJob(s)
    \/ \E s \in Subjects : LaunchFails(s)
    \/ \E s \in Subjects : \E returncode \in {0, 1} : FinishJob(s, returncode)
    \/ \E s \in Subjects : Collect(s)
    \/ CheckErrors
    \/ Promote

Spec == Init /\ [][Next]_vars

\* The steps of the executor, of its workers and of the as_completed loop.
PoolStep ==
    \/ \E s \in Subjects : StartJob(s)
    \/ \E s \in Subjects : LaunchFails(s)
    \/ \E s \in Subjects : \E returncode \in {0, 1} : FinishJob(s, returncode)
    \/ \E s \in Subjects : Collect(s)

\* The main thread and the workers are scheduled, and every recon-all process
\* that was started exits.
SpecFair == Spec /\ WF_vars(PoolStep)

\* The allocator alone: main() at line 155 with any pool and any batch size.
InitAlloc ==
    /\ n_cpus \in 0..MaxCores
    /\ mem_gb \in 0..MaxMemGb
    /\ \E n \in 0..MaxJobs : sub_dict = [i \in 1..n |-> i]
    /\ args_subjects = Range(sub_dict)
    /\ t1_exists = Range(sub_dict)
    /\ pc = "allocate"
    /\ InitCommon

NextAlloc == Allocate

SpecAlloc == InitAlloc /\ [][NextAlloc]_vars

(***************************************************************************)
(* log_summary (utils/utils.py:100-125)                                     *)
(***************************************************************************)
\* Line 115: the header row.
Header ==
    << "timestamp", "project", "subject", "session", "run", "module",
       "success", "error" >>

\* Lines 107-110: " ".join(str(x) for x in val).
RECURSIVE join_if_list(_)
join_if_list(val) ==
    IF Len(val) = 0 THEN ""
    ELSE IF Len(val) = 1 THEN val[1]
    ELSE val[1] \o " " \o join_if_list(Tail(val))

\* csv.writer writes a bool as "True" or "False".
BoolField(b) == IF b THEN "True" ELSE "False"

\* Variant: the header row is written by every call.
log_summary_always_header(logfile, now, project, subject, session, run, module, success, errmsg) ==
    [exists |-> TRUE,
     rows |-> logfile.rows \o
              << Header,
                 << now, project, join_if_list(subject), join_if_list(session),
                    join_if_list(run), module, BoolField(success), errmsg >> >>]

\* The file after log_summary; now is the text of datetime.now().
log_summary(logfile, now, project, subject, session, run, module, success, errmsg) ==
    LET write_header == ~logfile.exists
        row == << now, project, join_if_list(subject), join_if_list(session),
                  join_if_list(run), module, BoolField(success), errmsg >>
    IN [exists |-> TRUE,
        rows |-> (IF write_header THEN << Header >> ELSE logfile.rows)
                 \o << row >>]

(***************************************************************************)
(* pipeline.py                                                              *)
(***************************************************************************)
\* Lines 64-65; "" stands for the None of MODULE_DICT.get.
MODULE_DICT(m) ==
    IF m = "01" THEN "mriqc" ELSE IF m = "02" THEN "fmriprep" ELSE ""

\* The values of -m: the two known modules and an unknown one.
ModuleArgs == {"01", "02", "99"}

ModuleLists == UNION { [1..n -> ModuleArgs] : n \in 1..MaxModules }

SubjectLists == { << >>, << "P005" >>, << "P005", "P010" >> }

SessionLists == { << "1" >>, << "1", "2" >> }

\* args.project and the run list are the same in every run.
project == "memorylane"

run_list == << "1" >>

\* The text of the clock-th reading of datetime.now().
Now == "T" \o Str(clock)

module_name == MODULE_DICT(modules[mod_i])

InLoop == ppc = "loop" /\ mod_i <= Len(modules)

\* Variant: an unknown module ends the pipeline.
SkipUnknown_is_fatal ==
    /\ InLoop
    /\ module_name = ""
    /\ ppc' = "exited"
    /\ exit_code' = 1
    /\ UNCHANGED << modules, mod_i, calls, yaml_exists, p_subjects, p_sessions,
                    summary_csv, clock, pipeline_runs, csv_base >>
    /\ UNCHANGED stageVars
    /\ UNCHANGED << fs, moveVars >>

\* Lines 145-149: an unknown module is skipped.
SkipUnknown ==
    /\ InLoop
    /\ module_name = ""
    /\ mod_i' = mod_i + 1
    /\ UNCHANGED << modules, ppc, exit_code, calls, yaml_exists, p_subjects,
                    p_sessions, summary_csv, clock, pipeline_runs, csv_base >>
    /\ UNCHANGED stageVars
    /\ UNCHANGED << fs, moveVars >>

\* Lines 77, 156-160: load_yaml raises FileNotFoundError, main() exits.
ConfigMissing ==
    /\ InLoop
    /\ module_name # ""
    /\ ~yaml_exists
    /\ calls' = Append(calls, [module |-> module_name, result |-> "no_config"])
    /\ ppc' = "exited"
    /\ exit_code' = 1
    /\ UNCHANGED << modules, mod_i, yaml_exists, p_subjects, p_sessions,
                    summary_csv, clock, pipeline_runs, csv_base >>
    /\ UNCHANGED stageVars
    /\ UNCHANGED << fs, moveVars >>

\* Lines 77-102: run_module starts the subprocess of the module.
LaunchModule ==
    /\ InLoop
    /\ module_name # ""
    /\ yaml_exists
    /\ calls' = Append(calls, [module |-> module_name, result |-> "running"])
    /\ ppc' = "subprocess"
    /\ UNCHANGED << modules, mod_i, exit_code, yaml_exists, p_subjects,
                    p_sessions, summary_csv, clock, pipeline_runs, csv_base >>
    /\ UNCHANGED stageVars
    /\ UNCHANGED << fs, moveVars >>

\* Variant: every exception of subprocess.run is logged as a failed run.
LaunchError_logs_row ==
    /\ InLoop
    /\ module_name # ""
    /\ yaml_exists
    /\ summary_csv' = log_summary(summary_csv, Now, project, p_subjects,
                                  p_sessions, run_list, module_name, FALSE,
                                  "launch error")
    /\ clock' = clock + 1
    /\ calls' = Append(calls, [module |-> module_name, result |-> "launch_error"])
    /\ ppc' = "exited"
    /\ exit_code' = 1
    /\ UNCHANGED << modules, mod_i, yaml_exists, p_subjects, p_sessions,
                    pipeline_runs, csv_base >>
    /\ UNCHANGED stageVars
    /\ UNCHANGED << fs, moveVars >>

\* Lines 102, 156-160: subprocess.run cannot start the process and raises an
\* exception that is no CalledProcessError; main() exits.
LaunchError ==
    /\ InLoop
    /\ module_name # ""
    /\ yaml_exists
    /\ calls' = Append(calls, [module |-> module_name, result |-> "launch_error"])
    /\ ppc' = "exited"
    /\ exit_code' = 1
    /\ UNCHANGED << modules, mod_i, yaml_exists, p_subjects, p_sessions,
                    summary_csv, clock, pipeline_runs, csv_base >>
    /\ UNCHANGED stageVars
    /\ UNCHANGED << fs, moveVars >>

\* Lines 102-104, 109, 154: the subprocess exits 0.
ModuleSucceeds ==
    /\ ppc = "subprocess"
    /\ summary_csv' = log_summary(summary_csv, Now, project, p_subjects,
                                  p_sessions, run_list,
                                  calls[Len(calls)].module, TRUE, "")
    /\ clock' = clock + 1
    /\ calls' = [calls EXCEPT ![Len(calls)].result = "success"]
    /\ mod_i' = mod_i + 1
    /\ ppc' = "loop"
    /\ UNCHANGED << modules, exit_code, yaml_exists, p_subjects, p_sessions,
                    pipeline_runs, csv_base >>
    /\ UNCHANGED stageVars
    /\ UNCHANGED << fs, moveVars >>

\* Variant: the loop goes on after a failed module.
ModuleFails_continues ==
    /\ ppc = "subprocess"
    /\ summary_csv' = log_summary(summary_csv, Now, project, p_subjects,
                                  p_sessions, run_list,
                                  calls[Len(calls)].module, FALSE,
                                  "non-zero exit status")
    /\ clock' = clock + 1
    /\ calls' = [calls EXCEPT ![Len(calls)].result = "nonzero"]
    /\ mod_i' = mod_i + 1
    /\ ppc' = "loop"
    /\ UNCHANGED << modules, exit_code, yaml_exists, p_subjects, p_sessions,
                    pipeline_runs, csv_base >>
    /\ UNCHANGED stageVars
    /\ UNCHANGED << fs, moveVars >>

\* Variant: the pipeline exits with code 0 after a failed module.
ModuleFails_exits_zero ==
    /\ ppc = "subprocess"
    /\ summary_csv' = log_summary(summary_csv, Now, project, p_subjects,
                                  p_sessions, run_list,
                                  calls[Len(calls)].module, FALSE,
                                  "non-zero exit status")
    /\ clock' = clock + 1
    /\ calls' = [calls EXCEPT ![Len(calls)].result = "nonzero"]
    /\ ppc' = "exited"
    /\ exit_code' = 0
    /\ UNCHANGED << modules, mod_i, yaml_exists, p_subjects, p_sessions,
                    pipeline_runs, csv_base >>
    /\ UNCHANGED stageVars
    /\ UNCHANGED << fs, moveVars >>

\* Variant: a failed module is not logged.
ModuleFails_not_logged ==
    /\ ppc = "subprocess"
    /\ calls' = [calls EXCEPT ![Len(calls)].result = "nonzero"]
    /\ ppc' = "exited"
    /\ exit_code' = 1
    /\ UNCHANGED << modules, mod_i, yaml_exists, p_subjects, p_sessions,
                    summary_csv, clock, pipeline_runs, csv_base >>
    /\ UNCHANGED stageVars
    /\ UNCHANGED << fs, moveVars >>

\* Lines 102, 105-108, 156-160: the subprocess exits non-zero,
\* CalledProcessError is logged and raised again, main() exits with code 1.
ModuleFails ==
    /\ ppc = "subprocess"
    /\ summary_csv' = log_summary(summary_csv, Now, project, p_subjects,
                                  p_sessions, run_list,
                                  calls[Len(calls)].module, FALSE,
                                  "non-zero exit status")
    /\ clock' = clock + 1
    /\ calls' = [calls EXCEPT ![Len(calls)].result = "nonzero"]
    /\ ppc' = "exited"
    /\ exit_code' = 1
    /\ UNCHANGED << modules, mod_i, yaml_exists, p_subjects, p_sessions,
                    pipeline_runs, csv_base >>
    /\ UNCHANGED stageVars
    /\ UNCHANGED << fs, moveVars >>

\* Line 162: the loop is over, the process exits with code 0.
PipelineFinished ==
    /\ ppc = "loop"
    /\ mod_i > Len(modules)
    /\ ppc' = "exited"
    /\ exit_code' = 0
    /\ UNCHANGED << modules, mod_i, calls, yaml_exists, p_subjects, p_sessions,
                    summary_csv, clock, pipeline_runs, csv_base >>
    /\ UNCHANGED stageVars
    /\ UNCHANGED << fs, moveVars >>

IsDataRow(r) == r # Header

DataRows == SelectSeq(summary_csv.rows, IsDataRow)

\* The same pipeline command is run again, against the same SUMMARY_CSV; the
\* project's dataset.yaml may have been added or removed in between.
RunAgain ==
    /\ ppc = "exited"
    /\ pipeline_runs < MaxRuns
    /\ yaml_exists' \in BOOLEAN
    /\ mod_i' = 1
    /\ ppc' = "loop"
    /\ exit_code' = -1
    /\ calls' = << >>
    /\ pipeline_runs' = pipeline_runs + 1
    /\ csv_base' = Len(DataRows)
    /\ UNCHANGED << modules, p_subjects, p_sessions, summary_csv, clock >>
    /\ UNCHANGED stageVars
    /\ UNCHANGED << fs, moveVars >>

\* freesurfer.py is not running.
StageIdle ==
    /\ n_cpus = 0
    /\ mem_gb = 0
    /\ args_subjects = {}
    /\ t1_exists = {}
    /\ sub_dict = << >>
    /\ pc = "idle"
    /\ run_settings = NoPlan
    /\ job = << >>
    /\ started = {}
    /\ collected = {}
    /\ errors = {}
    /\ raised = "none"
    /\ promoted = {}
    /\ scratch = FALSE

\* main() of pipeline.py at line 145, SUMMARY_CSV not yet written.
InitPipe ==
    /\ StageIdle
    /\ MoveIdle
    /\ fs = EmptyFs
    /\ modules \in ModuleLists
    /\ mod_i = 1
    /\ ppc = "loop"
    /\ exit_code = -1
    /\ calls = << >>
    /\ yaml_exists \in BOOLEAN
    /\ p_subjects \in SubjectLists
    /\ p_sessions \in SessionLists
    /\ summary_csv = [exists |-> FALSE, rows |-> << >>]
    /\ clock = 0
    /\ pipeline_runs = 1
    /\ csv_base = 0

NextPipe ==
    \/ SkipUnknown
    \/ ConfigMissing
    \/ LaunchModule
    \/ LaunchError
    \/ ModuleSucceeds
    \/ ModuleFails
    \/ PipelineFinished
    \/ RunAgain

SpecPipe == InitPipe /\ [][NextPipe]_vars

(***************************************************************************)
(* Properties of the stage.                                                 *)
(***************************************************************************)
Terminal == pc \in {"done", "raised"}

Planned == pc \notin {"stage", "allocate"} /\ raised # "Exception"

jobs_in_parallel == run_settings.subjects_in_parallel

cores_per_job == run_settings.cores_per_sub

subdivide_job == run_settings.parallel_hemi

\* The candidates as the specification orders them: << subdivided, cores >>.
TierOrder == << << TRUE, 8 >>, << FALSE, 8 >>, << FALSE, 4 >>, << FALSE, 2 >> >>

\* max_fit of the i-th candidate for the pool of this run.
MaxFit(i) ==
    Min(n_cpus \div (TierOrder[i][2] * (IF TierOrder[i][1] THEN 2 ELSE 1)),
        mem_gb \div 4)

TierFits(i) == MaxFit(i) >= total_subjects

NoTierFits == \A i \in 1..Len(TierOrder) : ~TierFits(i)

CoresClaimed ==
    Cardinality(Running) * cores_per_job * (IF subdivide_job THEN 2 ELSE 1)

MemoryClaimed == Cardinality(Running) * 4

\* C1: at every instant the cores claimed by the in-flight jobs
\* (cores_per_job, doubled when the job is subdivided) do not exceed
\* total_cores and the memory claimed (4 GB per in-flight job) does not
\* exceed total_memory.
C1_PoolNeverOversubscribed ==
    /\ CoresClaimed <= n_cpus
    /\ MemoryClaimed <= mem_gb

\* Two jobs in flight, a third waiting, and the memory fully claimed.
C1_Witness ==
    /\ Cardinality(Running) = 2
    /\ \E s \in DOMAIN job : job[s] = "queued"
    /\ MemoryClaimed = mem_gb
    /\ CoresClaimed = 4

\* C2: the number of recon-all processes running at the same time is at
\* most subjects_in_parallel.
C2_AtMostJobsInParallelRunning ==
    Cardinality(Running) <= jobs_in_parallel

\* Every slot is taken while a job still waits in the queue.
C2_Witness ==
    /\ jobs_in_parallel = 2
    /\ Cardinality(Running) = jobs_in_parallel
    /\ \E s \in DOMAIN job : job[s] = "queued"

\* C3: the plan never claims more cores than the pool has:
\* jobs_in_parallel * cores_per_job * (2 if subdivide_job else 1) <= total_cores.
C3_PlanWithinCores ==
    pc = "pool" =>
        jobs_in_parallel * cores_per_job * (IF subdivide_job THEN 2 ELSE 1)
            <= n_cpus

\* A subdivided plan for several jobs that claims every core of the pool.
C3_Witness ==
    /\ pc = "pool"
    /\ subdivide_job
    /\ jobs_in_parallel = 4
    /\ n_cpus = 64
    /\ jobs_in_parallel * cores_per_job * 2 = n_cpus

\* C4: the plan never claims more memory than the pool has:
\* jobs_in_parallel * 4 <= total_memory_gb.
C4_PlanWithinMemory ==
    pc = "pool" => jobs_in_parallel * 4 <= mem_gb

\* The memory, not the cores, limits the plan, and the plan claims all of it.
C4_Witness ==
    /\ pc = "pool"
    /\ jobs_in_parallel >= 2
    /\ jobs_in_parallel * 4 = mem_gb
    /\ jobs_in_parallel < n_cpus \div 2
    /\ jobs_in_parallel < total_subjects

\* C5: when every job fits at the richest tier
\* (min(total_cores // 16, total_memory_gb // 4) >= job_count) the plan runs
\* job_count jobs in parallel at 8 cores, subdivided.
C5_RichestTierWhenItFits ==
    (pc = "pool" /\ Min(n_cpus \div 16, mem_gb \div 4) >= total_subjects) =>
        /\ jobs_in_parallel = total_subjects
        /\ cores_per_job = 8
        /\ subdivide_job = TRUE

\* The pool (64, 256) with 4 jobs.
C5_Witness ==
    /\ pc = "pool"
    /\ n_cpus = 64
    /\ mem_gb = 256
    /\ total_subjects = 4
    /\ run_settings = [cores_per_sub |-> 8, parallel_hemi |-> TRUE,
                       subjects_in_parallel |-> 4]

\* C6: the plan is the first candidate, in the order (subdivided, 8 cores),
\* (8 cores), (4 cores), (2 cores), whose max_fit is at least job_count, with
\* jobs_in_parallel equal to job_count.
C6_FirstFittingCandidate ==
    pc = "pool" =>
        \A i \in 1..Len(TierOrder) :
            (TierFits(i) /\ \A j \in 1..(i - 1) : ~TierFits(j)) =>
                run_settings = [cores_per_sub |-> TierOrder[i][2],
                                parallel_hemi |-> TierOrder[i][1],
                                subjects_in_parallel |-> total_subjects]

\* The 4-core candidate is the first that fits a batch of several jobs.
C6_Witness ==
    /\ pc = "pool"
    /\ total_subjects >= 2
    /\ ~TierFits(1) /\ ~TierFits(2) /\ TierFits(3)
    /\ cores_per_job = 4
    /\ jobs_in_parallel = total_subjects

\* C7: when no candidate fits the whole batch the plan is the 2-core,
\* non-subdivided one with jobs_in_parallel = min(total_cores // 2,
\* total_memory_gb // 4); when that is at least 1, every job of the batch is
\* still run, at most jobs_in_parallel at a time.
C7_FallbackPlanRunsEveryJob ==
    (Planned /\ NoTierFits) =>
        /\ run_settings = [cores_per_sub |-> 2, parallel_hemi |-> FALSE,
                           subjects_in_parallel |->
                               Min(n_cpus \div 2, mem_gb \div 4)]
        /\ Cardinality(Running) <= Min(n_cpus \div 2, mem_gb \div 4)
        /\ (Terminal /\ Min(n_cpus \div 2, mem_gb \div 4) >= 1) =>
               /\ DOMAIN job = Range(sub_dict)
               /\ \A s \in Range(sub_dict) : job[s] \in {"succeeded", "failed"}

\* The pool (4, 8) with 3 jobs: 2 at a time, and all 3 have been run.
C7_Witness ==
    /\ pc = "done"
    /\ n_cpus = 4
    /\ mem_gb = 8
    /\ total_subjects = 3
    /\ jobs_in_parallel = 2
    /\ started = Range(sub_dict)

\* C8 as stated: for every pool and every job_count >= 1 the plan has
\* jobs_in_parallel >= 1 and cores_per_job >= 1.
C8_Original ==
    (pc = "pool" /\ total_subjects >= 1) =>
        /\ jobs_in_parallel >= 1
        /\ cores_per_job >= 1

\* C8, amended: for every job_count >= 1 the allocator returns a plan with
\* cores_per_job >= 1, and jobs_in_parallel >= 1 exactly when the pool has at
\* least 2 cores and 4 GB; for a smaller pool jobs_in_parallel is 0.
C8_UsablePlanWhenPoolFitsOneJob ==
    (pc = "pool" /\ total_subjects >= 1) =>
        /\ cores_per_job >= 1
        /\ jobs_in_parallel >= 0
        /\ jobs_in_parallel >= 1 <=> (n_cpus >= 2 /\ mem_gb >= 4)

\* The smallest pool that fits one job, with several jobs to run.
C8_Witness ==
    /\ pc = "pool"
    /\ n_cpus = 2
    /\ mem_gb = 4
    /\ total_subjects >= 2
    /\ jobs_in_parallel = 1

\* C9: when the pool cannot fit one job at the minimum tier
\* (total_cores < 2 or total_memory_gb < 4, job_count >= 1) the stage ends
\* with an error before any recon-all process is started.
C9_TooSmallPoolAbortsBeforeAnyJob ==
    (total_subjects >= 1 /\ (n_cpus < 2 \/ mem_gb < 4)
        /\ pc \notin {"stage", "allocate", "pool"}) =>
        /\ pc = "raised"
        /\ raised = "ValueError"
        /\ started = {}
        /\ job = << >>

\* Enough cores, too little memory, several jobs: the stage has raised.
C9_Witness ==
    /\ pc = "raised"
    /\ raised = "ValueError"
    /\ total_subjects >= 2
    /\ n_cpus >= 2
    /\ mem_gb < 4

\* C10: with job_count = 0 (every requested subject was skipped) the stage
\* starts no recon-all process and completes without raising an error.
C10_EmptyBatchIsNoOp ==
    (Terminal /\ args_subjects # {} /\ total_subjects = 0) =>
        /\ started = {}
        /\ pc = "done"
        /\ raised = "none"

JobDone(s) == s \in DOMAIN job /\ job[s] \in {"succeeded", "failed"}

FailedJobs == { s \in DOMAIN job : job[s] = "failed" }

SucceededJobs == { s \in DOMAIN job : job[s] = "succeeded" }

\* C11: under fair scheduling every submitted job eventually reaches a
\* terminal state (succeeded or failed), whatever happens to its siblings and
\* also when fewer jobs run in parallel than were submitted.
C11_EveryJobReachesTerminalState ==
    (pc = "collect") ~> (\A s \in Range(sub_dict) : JobDone(s))

\* A job has failed, a sibling was started after it and is done as well, with
\* fewer slots than jobs.
C11_Witness ==
    /\ jobs_in_parallel = 1
    /\ DOMAIN job = {1, 2, 3}
    /\ job[1] = "failed"
    /\ job[2] = "succeeded"
    /\ job[3] = "failed"

\* C12: with exactly one failed job out of N the stage reports that job as
\* the only failure and overall failure, and the outputs of the other N-1
\* jobs are promoted.
C12_OneFailureOthersPromoted ==
    (Terminal /\ DOMAIN job # {} /\ Cardinality(FailedJobs) = 1) =>
        /\ errors = FailedJobs
        /\ raised = "RuntimeError"
        /\ promoted = SucceededJobs

\* C13: the output of a job whose process failed is never promoted.
C13_FailedJobNeverPromoted ==
    \A s \in DOMAIN job : s \in promoted => job[s] = "succeeded"

\* A batch of several jobs has been promoted.
C13_Witness ==
    /\ pc = "done"
    /\ Cardinality(promoted) >= 2
    /\ promoted = Range(sub_dict)

\* C14: after the stage has ended, whether its jobs succeeded or failed, the
\* scratch workspace no longer exists.
C14_ScratchReleasedOnEveryExit ==
    (Terminal /\ DOMAIN job # {}) => scratch = FALSE

\* C20: a job's process is started at most once per stage, and a failed job
\* stays failed.
C20_FailedJobIsFinal ==
    [][\A s \in DOMAIN job :
        /\ job[s] = "failed" => job'[s] = "failed"
        /\ (s \in started /\ job[s] # "running") => job'[s] # "running"]_vars

\* A job's process has failed and the stage goes on with a sibling.
C20_Witness ==
    \E s, u \in DOMAIN job :
        /\ s \in started
        /\ job[s] = "failed"
        /\ job[u] = "running"
        /\ s \in collected

(***************************************************************************)
(* Properties of the pipeline and of the run log.                           *)
(***************************************************************************)
FailedCall(c) == c.result \in {"nonzero", "launch_error", "no_config"}

SomeStageFailed == \E i \in 1..Len(calls) : FailedCall(calls[i])

\* The names of the recognized stages of a stage list, in the order given.
RECURSIVE RecognizedStages(_)
RecognizedStages(ms) ==
    IF ms = << >> THEN << >>
    ELSE (IF Head(ms) = "01" THEN << "mriqc" >>
          ELSE IF Head(ms) = "02" THEN << "fmriprep" >>
          ELSE << >>) \o RecognizedStages(Tail(ms))

\* C15: the stages are started in the order given, no stage is started after
\* a stage has failed, and the pipeline then exits with a non-zero code.
C15_NoStageAfterFailure ==
    /\ Len(calls) <= Len(RecognizedStages(modules))
    /\ \A i \in 1..Len(calls) :
        /\ calls[i].module = RecognizedStages(modules)[i]
        /\ FailedCall(calls[i]) =>
              (i = Len(calls) /\ ppc = "exited" /\ exit_code # 0)

\* Three recognized stages, the first has failed: it is the only one started.
C15_Witness ==
    /\ Len(RecognizedStages(modules)) = 3
    /\ Len(calls) = 1
    /\ calls[1].result = "nonzero"
    /\ ppc = "exited"
    /\ exit_code = 1

\* C16: an unrecognized stage name is skipped: when no recognized stage
\* failed, every recognized stage of the list has been run and the exit code
\* is 0.
C16_UnknownStageSkipped ==
    (ppc = "exited" /\ ~SomeStageFailed) =>
        /\ exit_code = 0
        /\ Len(calls) = Len(RecognizedStages(modules))
        /\ \A i \in 1..Len(calls) :
            /\ calls[i].module = RecognizedStages(modules)[i]
            /\ calls[i].result = "success"

\* An unknown name first, then two recognized stages: both have been run.
C16_Witness ==
    /\ ppc = "exited"
    /\ exit_code = 0
    /\ Len(modules) = 3
    /\ MODULE_DICT(modules[1]) = ""
    /\ Len(calls) = 2
    /\ calls[2].result = "success"

\* C17: the exit code of the pipeline is non-zero exactly when a stage
\* failed, and 0 when every stage that was run succeeded.
C17_ExitCodeNonZeroIffStageFailed ==
    /\ ppc = "exited" => exit_code \in {0, 1}
    /\ ppc = "exited" => (exit_code # 0 <=> SomeStageFailed)
    /\ ppc # "exited" => (exit_code = -1 /\ ~SomeStageFailed)

\* Two stages succeeded, the third failed.
C17_Witness ==
    /\ ppc = "exited"
    /\ exit_code = 1
    /\ Len(calls) = 3
    /\ calls[1].result = "success"
    /\ calls[2].result = "success"
    /\ calls[3].result = "nonzero"

\* The stages of this run whose subprocess ran to an exit.
RanToExit(c) == c.result \in {"success", "nonzero"}

CompletedCalls == SelectSeq(calls, RanToExit)

\* The rows this run has added to SUMMARY_CSV.
NewRows == SubSeq(DataRows, csv_base + 1, Len(DataRows))

HeaderCount(rows) == Cardinality({ i \in 1..Len(rows) : rows[i] = Header })

\* C19: the run log has its header exactly once, as the first row, and a
\* call never changes or removes a row that is already in the file.
C19_AppendOnlySingleHeader ==
    /\ [](summary_csv.exists =>
            /\ summary_csv.rows[1] = Header
            /\ HeaderCount(summary_csv.rows) = 1)
    /\ [][/\ summary_csv.exists => summary_csv'.exists
          /\ Len(summary_csv'.rows) >= Len(summary_csv.rows)
          /\ SubSeq(summary_csv'.rows, 1, Len(summary_csv.rows))
                = summary_csv.rows]_vars

\* The log holds rows of two runs under its one header.
C19_Witness ==
    /\ pipeline_runs = 2
    /\ csv_base >= 2
    /\ Len(DataRows) > csv_base
    /\ Len(summary_csv.rows) = Len(DataRows) + 1

\* The as_completed loop has yielded every future and main() has gone on.
AllCollected ==
    /\ pc \in {"promote", "done", "raised"}
    /\ raised \in {"none", "RuntimeError"}

\* C21: in whatever order the jobs' processes complete, the failures that
\* the stage has collected are exactly the collected jobs whose process
\* exited non-zero or could not be launched; once every job is collected the
\* set is exactly the failed jobs, and the stage fails if and only if that
\* set is not empty.
C21_FailedSetIsExact ==
    /\ errors = FailedJobs \cap collected
    /\ AllCollected =>
        /\ errors = FailedJobs
        /\ (raised = "RuntimeError") <=> (errors # {})

\* The jobs complete out of submission order: the job submitted last has
\* failed and is collected, with the failure of the second job, while the
\* process of the job submitted first is still running.
C21_Witness ==
    /\ pc = "collect"
    /\ DOMAIN job = {1, 2, 3}
    /\ job[1] = "running"
    /\ 2 \notin started
    /\ errors = {2, 3}

\* The requested subjects whose T1 scan does not exist.
MissingInput == args_subjects \ t1_exists

\* C22: a requested job whose input does not exist is not staged and no
\* process is ever launched for it, while every requested job whose input
\* exists is staged, and has been run once the stage is through its pool.
C22_MissingInputSkipsOnlyThatJob ==
    /\ \A s \in MissingInput :
        /\ s \notin Range(sub_dict)
        /\ s \notin DOMAIN job
        /\ s \notin started
    /\ Planned => Range(sub_dict) = args_subjects \cap t1_exists
    /\ AllCollected => \A s \in args_subjects \cap t1_exists : JobDone(s)

\* One requested subject has no T1 scan; the other two were staged, their
\* processes were started and the stage is through.
C22_Witness ==
    /\ AllCollected
    /\ args_subjects = {1, 2, 3}
    /\ MissingInput = {2}
    /\ started = {1, 3}
    /\ DOMAIN job = {1, 3}

\* C27: the plan never runs more jobs in parallel than the batch has:
\* jobs_in_parallel equals job_count when some candidate fits the batch and
\* is strictly smaller when none does.
C27_ParallelJobsWithinBatch ==
    pc = "pool" =>
        /\ jobs_in_parallel <= total_subjects
        /\ ~NoTierFits => jobs_in_parallel = total_subjects
        /\ NoTierFits => jobs_in_parallel < total_subjects

\* A batch that fits no candidate is planned with several jobs in parallel,
\* fewer than the batch has.
C27_Witness ==
    /\ pc = "pool"
    /\ NoTierFits
    /\ jobs_in_parallel >= 2
    /\ jobs_in_parallel < total_subjects

\* The call of run_module that ended without its subprocess reaching an exit.
Unlogged(c) == c.result \in {"no_config", "launch_error"}

\* C26: the step in which the subprocess of a recognized stage exits appends
\* exactly one row to the run log, for that stage and with success flag True
\* exactly when the exit code was 0, and leads to the next stage or to the
\* exit of the pipeline; no other step adds a row, and a stage that fails
\* on a missing config or a launch error ends the pipeline with exit code 1
\* and without a row of its own.
C26_RowExactlyWhenSubprocessExits ==
    /\ [](/\ Len(NewRows) = Len(CompletedCalls)
          /\ \A i \in 1..Len(calls) :
                Unlogged(calls[i]) =>
                    /\ i = Len(calls)
                    /\ ppc = "exited"
                    /\ exit_code = 1)
    /\ [][/\ ppc = "subprocess" =>
                /\ ppc' \in {"loop", "exited"}
                /\ Len(DataRows') = Len(DataRows) + 1
                /\ SubSeq(DataRows', 1, Len(DataRows)) = DataRows
                /\ DataRows'[Len(DataRows')][6] = calls[Len(calls)].module
                /\ (DataRows'[Len(DataRows')][7] = "True")
                      <=> (calls'[Len(calls')].result = "success")
                /\ (DataRows'[Len(DataRows')][7] = "False")
                      <=> (calls'[Len(calls')].result = "nonzero")
          /\ ppc # "subprocess" => DataRows' = DataRows]_vars

\* The first stage exited 0 and has its row; the second could not be
\* launched and the pipeline has exited without a row for it.
C26_Witness ==
    /\ ppc = "exited"
    /\ exit_code = 1
    /\ Len(calls) = 2
    /\ calls[1].result = "success"
    /\ calls[2].result = "launch_error"
    /\ Len(NewRows) = 1
    /\ NewRows[1][7] = "True"

\* The volume recon-all wrote for subject s, under the directory root.
Volume(root, s) == subject_dir(root, s) \o << "mri", "brain.mgz" >>

\* C25: output is under the derivatives directory only if every job of the
\* batch succeeded; when at least one job failed the stage ends with nothing
\* promoted, not even the output of the jobs that succeeded, and with the
\* scratch directory and that output still in place.
C25_PromotionIsAllOrNothing ==
    /\ (promoted # {} \/ exists(fs, final_output_dir_freesurfer)) =>
        /\ DOMAIN job # {}
        /\ \A s \in DOMAIN job : job[s] = "succeeded"
    /\ (Terminal /\ FailedJobs # {}) =>
        /\ promoted = {}
        /\ ~exists(fs, final_output_dir_freesurfer)
        /\ scratch
        /\ is_dir(fs, scratch_dir_freesurfer)
        /\ \A s \in SucceededJobs :
              exists(fs, Volume(temp_output_dir_freesurfer, s))

\* The stage has ended with one failed job out of three: the volumes of the
\* other two are in scratch and nothing is under the derivatives directory.
C25_Witness ==
    /\ Terminal
    /\ DOMAIN job = {1, 2, 3}
    /\ FailedJobs = {2}
    /\ exists(fs, Volume(temp_output_dir_freesurfer, 1))
    /\ exists(fs, Volume(temp_output_dir_freesurfer, 3))
    /\ ~exists(fs, final_output_dir_freesurfer)

(***************************************************************************)
(* The post-processing alone: main() at line 208 after a batch in which     *)
(* every job succeeded, with or without the output of an earlier run under  *)
(* the derivatives directory.                                               *)
(***************************************************************************)
RECURSIVE ReconAllRuns(_, _)
\* The file system after recon-all has exited 0 for every subject of subs.
ReconAllRuns(f, subs) ==
    IF subs = {} THEN f
    ELSE LET s == CHOOSE x \in subs : TRUE
         IN ReconAllRuns(ReconAll(f, s, 0), subs \ {s})

RECURSIVE EarlierOutput(_, _)
\* The output an earlier run of the stage has left under the derivatives
\* directory for the subjects of subs: an older volume and its log.
EarlierOutput(f, subs) ==
    IF subs = {} THEN mkdir(f, final_output_dir_freesurfer)
    ELSE LET s == CHOOSE x \in subs : TRUE
             g == write_file(mkdir(f, Append(subject_dir(final_output_dir_freesurfer, s), "mri")),
                             Volume(final_output_dir_freesurfer, s),
                             "brain of an earlier run")
         IN EarlierOutput(
                write_file(g, Append(subject_dir(final_output_dir_freesurfer, s),
                                     "recon-all.log"), "log of an earlier run"),
                subs \ {s})

InitPromote ==
    /\ n_cpus = MaxCpus
    /\ mem_gb = MaxMem
    /\ args_subjects \in SUBSET Subjects \ {{}}
    /\ t1_exists = args_subjects
    /\ sub_dict = Ascending(args_subjects)
    /\ run_settings = allocate_resources(n_cpus, mem_gb, Len(sub_dict))
    /\ job = [s \in args_subjects |-> "succeeded"]
    /\ started = args_subjects
    /\ collected = args_subjects
    /\ errors = {}
    /\ raised = "none"
    /\ promoted = {}
    /\ scratch = TRUE
    /\ pc = "promote"
    /\ \E earlier \in SUBSET Subjects, derivatives_exist \in BOOLEAN :
        /\ earlier # {} => derivatives_exist
        /\ fs = LET run == ReconAllRuns(StageScans(ScratchFs, args_subjects),
                                        args_subjects)
                IN IF derivatives_exist THEN EarlierOutput(run, earlier) ELSE run
    /\ PipeIdle
    /\ MoveIdle

NextPromote == Promote

SpecPromote == InitPromote /\ [][NextPromote]_vars

\* The tree under root, as a function from the paths relative to root.
Subtree(f, root) ==
    [rel \in { SubSeq(q, Len(root) + 1, Len(q)) :
                  q \in { r \in DOMAIN f : IsPrefix(root, r) /\ r # root } } |->
        f[root \o rel]]

\* The output tree the jobs of this batch wrote to scratch.
OutputTree ==
    Subtree(ReconAllRuns(ScratchFs, DOMAIN job), temp_output_dir_freesurfer)

\* C23: after a stage in which every job succeeded, every entry of the
\* output tree is under the derivatives directory with the content the jobs
\* wrote, and neither the output tree nor anything else of the stage's
\* scratch directory exists any more.
C23_OutputCopiedAndScratchRemoved ==
    pc = "done" =>
        /\ \A rel \in DOMAIN OutputTree :
              /\ exists(fs, final_output_dir_freesurfer \o rel)
              /\ fs[final_output_dir_freesurfer \o rel] = OutputTree[rel]
        /\ \A q \in DOMAIN fs : ~IsPrefix(scratch_dir_freesurfer, q)

\* The output of three jobs has been promoted over the output of an earlier
\* run: the new volume of subject 1 has replaced the old one, the earlier
\* log is still there and scratch is gone.
C23_Witness ==
    /\ pc = "done"
    /\ DOMAIN job = {1, 2, 3}
    /\ fs[Volume(final_output_dir_freesurfer, 1)] = "brain of sub-1"
    /\ exists(fs, Append(subject_dir(final_output_dir_freesurfer, 1), "recon-all.log"))
    /\ exists(fs, Volume(final_output_dir_freesurfer, 3))
    /\ ~exists(fs, scratch_dir_freesurfer)

(***************************************************************************)
(* move_outputs (utils/utils.py:56-98) applied to small directories.        *)
(***************************************************************************)
TempOutputDir == << "scratch", "output" >>

FinalOutputDir == << "derivatives", "output" >>

\* The entry called n under dir: nothing, a file or a directory holding one
\* file called inner.
WithEntry(f, dir, n, kind, data, inner) ==
    IF kind = "file" THEN write_file(f, Append(dir, n), data)
    ELSE IF kind = "dir"
         THEN write_file(mkdir(f, Append(dir, n)), dir \o << n, inner >>, data)
         ELSE f

EntryKinds == {"none", "file", "dir"}

\* temp_output_dir holds any of a file "a", a file "b" and a directory "d".
TempDirs ==
    { WithEntry(WithEntry(WithEntry(mkdir(EmptyFs, TempOutputDir),
                                    TempOutputDir, "a", a, "new a", "x"),
                          TempOutputDir, "b", b, "new b", "x"),
                TempOutputDir, "d", d, "new x", "x") :
        a \in {"none", "file"}, b \in {"none", "file"}, d \in {"none", "dir"} }

\* final_output_dir holds any of an entry "a", an entry "d" and a file "c".
WithFinalDirs(f) ==
    { WithEntry(WithEntry(WithEntry(mkdir(f, FinalOutputDir),
                                    FinalOutputDir, "a", a, "old a", "y"),
                          FinalOutputDir, "d", d, "old y", "y"),
                FinalOutputDir, "c", c, "old c", "y") :
        a \in EntryKinds, d \in EntryKinds, c \in {"none", "file"} }

\* move_outputs is called with any flag; temp_output_dir and
\* final_output_dir may or may not exist.
InitMove ==
    /\ fs \in UNION { {f} \cup WithFinalDirs(f) : f \in TempDirs \cup {EmptyFs} }
    /\ fs_before = fs
    /\ overwrite \in BOOLEAN
    /\ mv_pc = "call"
    /\ StageIdle
    /\ PipeIdle

\* Lines 56-98.
MoveOutputs ==
    /\ mv_pc = "call"
    /\ IF ~exists(fs, TempOutputDir)
       THEN /\ mv_pc' = "FileNotFoundError"
            /\ UNCHANGED fs
       ELSE /\ \E oserror \in BOOLEAN :
                fs' = move_outputs(fs, TempOutputDir, FinalOutputDir,
                                   overwrite, oserror)
            /\ mv_pc' = "returned"
    /\ UNCHANGED << overwrite, fs_before >>
    /\ UNCHANGED stageVars
    /\ UNCHANGED pipeVars

NextMove == MoveOutputs

SpecMove == InitMove /\ [][NextMove]_vars

\* The names of the items of temp_output_dir that had an entry of the same
\* name at the destination when move_outputs was called.
Clashing ==
    { name(q) : q \in { i \in iterdir(fs_before, TempOutputDir) :
                          exists(fs_before, Append(FinalOutputDir, name(i))) } }

\* C24: for every item of temp_output_dir whose name already exists in
\* final_output_dir, after move_outputs has returned: with overwrite the
\* destination entry is exactly what the temp entry was, and the temp entry
\* is gone; without overwrite the destination entry and the temp entry are
\* both what they were.
C24_OverwriteFlagDecides ==
    mv_pc = "returned" =>
        \A n \in Clashing :
            LET item == Append(TempOutputDir, n)
                dest == Append(FinalOutputDir, n)
            IN IF overwrite
               THEN /\ exists(fs, dest)
                    /\ fs[dest] = fs_before[item]
                    /\ Subtree(fs, dest) = Subtree(fs_before, item)
                    /\ ~exists(fs, item)
               ELSE /\ exists(fs, dest)
                    /\ fs[dest] = fs_before[dest]
                    /\ Subtree(fs, dest) = Subtree(fs_before, dest)
                    /\ exists(fs, item)
                    /\ fs[item] = fs_before[item]
                    /\ Subtree(fs, item) = Subtree(fs_before, item)

\* Without overwrite, the file "a" and the directory "d" that were at the
\* destination are kept and their counterparts stay in temp_output_dir,
\* while the file "b", which had no counterpart, has been moved.
C24_Witness ==
    /\ mv_pc = "returned"
    /\ ~overwrite
    /\ Clashing = {"a", "d"}
    /\ fs[Append(FinalOutputDir, "a")] = "old a"
    /\ exists(fs, FinalOutputDir \o << "d", "y" >>)
    /\ exists(fs, Append(TempOutputDir, "a"))
    /\ exists(fs, Append(FinalOutputDir, "b"))
    /\ ~exists(fs, Append(TempOutputDir, "b"))

=============================================================================
